---- MODULE Spec2Model ----
(***************************************************************************)
(* SVGGradientRemover.py: replace linearGradient fills by the solid colour *)
(* of the gradient's first colour-bearing stop, write the SVG, render PDF. *)
(*                                                                         *)
(* Strings are sequences of tokens.  A token is one character (" ", ";",   *)
(* ":", "#", ")", "'", the double quote, a letter) or a fixed run of       *)
(* characters that the program only ever handles as a whole ("url(",       *)
(* "fill", "stop-color", "stroke").  None is Python's None.                *)
(***************************************************************************)
EXTENDS Integers, Sequences, FiniteSets, TLC

None == <<"None">>
RecursionError == <<"RecursionError">>

DQ == "\""
SQ == "'"
WS == " "

\* Python truthiness of an Optional[str]
Truthy(v) == v # None /\ v # <<>>

----------------------------------------------------------------------------
(* str helpers *)

RECURSIVE LStrip(_)
LStrip(s) == IF s # <<>> /\ Head(s) = WS THEN LStrip(Tail(s)) ELSE s

RECURSIVE RStrip(_)
RStrip(s) ==
  IF s # <<>> /\ s[Len(s)] = WS THEN RStrip(SubSeq(s, 1, Len(s) - 1)) ELSE s

\* str.strip()
Strip(s) == RStrip(LStrip(s))

\* position of the first occurrence of token c in s, 0 when absent
RECURSIVE IndexOf(_, _, _)
IndexOf(s, c, i) ==
  IF i > Len(s) THEN 0 ELSE IF s[i] = c THEN i ELSE IndexOf(s, c, i + 1)

\* str.split(sep): always at least one chunk
RECURSIVE Split(_, _)
Split(s, sep) ==
  LET i == IndexOf(s, sep, 1) IN
  IF i = 0 THEN <<s>>
  ELSE <<SubSeq(s, 1, i - 1)>> \o Split(SubSeq(s, i + 1, Len(s)), sep)

\* str.split(sep, 1) of a string that contains sep
Split1(s, sep) ==
  LET i == IndexOf(s, sep, 1) IN
  <<SubSeq(s, 1, i - 1), SubSeq(s, i + 1, Len(s))>>

----------------------------------------------------------------------------
(* dict[str, str] in insertion order: a sequence of <<key, value>> *)

RECURSIVE DictIndex(_, _, _)
DictIndex(d, k, i) ==
  IF i > Len(d) THEN 0 ELSE IF d[i][1] = k THEN i ELSE DictIndex(d, k, i + 1)

DictGet(d, k) ==
  LET i == DictIndex(d, k, 1) IN IF i = 0 THEN None ELSE d[i][2]

\* DictSet as a delete followed by an insert: the key moves to the end
DictSet_append(d, k, v) ==
  Append(SelectSeq(d, LAMBDA kv : kv[1] # k), <<k, v>>)

\* d[k] = v: an existing key keeps its position
DictSet(d, k, v) ==
  LET i == DictIndex(d, k, 1) IN
  IF i = 0 THEN Append(d, <<k, v>>) ELSE [d EXCEPT ![i] = <<k, v>>]

----------------------------------------------------------------------------
(* _URL_REF_RE = ^url\(\s*['"]?#(?P<id>[^'")\s]+)['"]?\s*\)\s*$            *)

IsQuote(c) == c \in {SQ, DQ}
IsIdChar(c) == c \notin {SQ, DQ, ")", WS}

RECURSIVE SkipWs(_, _)
SkipWs(s, i) == IF i <= Len(s) /\ s[i] = WS THEN SkipWs(s, i + 1) ELSE i

RECURSIVE SkipId(_, _)
SkipId(s, i) == IF i <= Len(s) /\ IsIdChar(s[i]) THEN SkipId(s, i + 1) ELSE i

SkipQuote(s, i) == IF i <= Len(s) /\ IsQuote(s[i]) THEN i + 1 ELSE i

\* the id group of the match, None when the pattern does not match
_URL_REF_RE(s) ==
  IF ~(Len(s) >= 1 /\ s[1] = "url(") THEN None
  ELSE
    LET p1 == SkipWs(s, 2)
        p2 == SkipQuote(s, p1)
    IN
    IF ~(p2 <= Len(s) /\ s[p2] = "#") THEN None
    ELSE
      LET p3 == SkipId(s, p2 + 1)
          p4 == SkipQuote(s, p3)
          p5 == SkipWs(s, p4)
      IN
      IF p3 = p2 + 1 THEN None
      ELSE IF ~(p5 <= Len(s) /\ s[p5] = ")") THEN None
      ELSE IF SkipWs(s, p5 + 1) # Len(s) + 1 THEN None
      ELSE SubSeq(s, p2 + 1, p3 - 1)

_is_fill_url_ref(value, gradient_id) ==
  LET m == _URL_REF_RE(Strip(value)) IN m # None /\ m = gradient_id

----------------------------------------------------------------------------
(* style attribute *)

RECURSIVE ParseChunks(_, _)
ParseChunks(chunks, out) ==
  IF chunks = <<>> THEN out
  ELSE
    LET chunk == Strip(Head(chunks)) IN
    IF chunk = <<>> \/ IndexOf(chunk, ":", 1) = 0
    THEN ParseChunks(Tail(chunks), out)
    ELSE
      LET kv == Split1(chunk, ":") IN
      ParseChunks(Tail(chunks), DictSet(out, Strip(kv[1]), Strip(kv[2])))

_parse_style(style) == ParseChunks(Split(style, ";"), <<>>)

RECURSIVE JoinItems(_)
JoinItems(items) ==
  IF items = <<>> THEN <<>>
  ELSE IF Len(items) = 1 THEN items[1][1] \o <<":", WS>> \o items[1][2]
  ELSE items[1][1] \o <<":", WS>> \o items[1][2] \o <<";", WS>>
       \o JoinItems(Tail(items))

_format_style(style_map) ==
  JoinItems(SelectSeq(style_map, LAMBDA kv : kv[1] # <<>> /\ kv[2] # <<>>))
  \o (IF style_map # <<>> THEN <<";">> ELSE <<>>)

----------------------------------------------------------------------------
(* ElementTree: the tree is the sequence of its elements in document order; *)
(* an element is [tag, parent, attrib], parent = 0 for the root, attrib an  *)
(* insertion-ordered dict from attribute name to value.                     *)

XLINK_href == "{http://www.w3.org/1999/xlink}href"
XLINK_HREF == "{http://www.w3.org/1999/xlink}HREF"

\* Element.get(name)
Get(elem, name) == DictGet(elem.attrib, name)

\* Set that assigns a fresh attrib dict and so drops the other attributes
Set_replacing(elem, name, value) ==
  [elem EXCEPT !.attrib = <<<<name, value>>>>]

\* Element.set(name, value)
Set(elem, name, value) ==
  [elem EXCEPT !.attrib = DictSet(elem.attrib, name, value)]

\* list(elem): indices of the direct children, in document order
Children(t, e) ==
  SelectSeq([k \in 1..Len(t) |-> k], LAMBDA k : t[k].parent = e)

\* tag.endswith("stop"), on the tags that occur
EndsWithStop(tag) == tag \in {"stop", "backstop"}

_extract_stop_color(stop_elem) ==
  LET color == Get(stop_elem, "stop-color")
      style == Get(stop_elem, "style")
  IN
  IF Truthy(color) THEN Strip(color)
  ELSE IF Truthy(style)
       THEN LET c2 == DictGet(_parse_style(style), <<"stop-color">>) IN
            IF Truthy(c2) THEN Strip(c2) ELSE None
       ELSE None

\* the loop over the direct stops: first truthy _extract_stop_color
RECURSIVE FirstStopColor(_, _)
FirstStopColor(t, kids) ==
  IF kids = <<>> THEN None
  ELSE
    LET child == t[Head(kids)]
        color == IF EndsWithStop(child.tag)
                 THEN _extract_stop_color(child) ELSE None
    IN IF Truthy(color) THEN color ELSE FirstStopColor(t, Tail(kids))

\* a or b or c or d
Or4(a, b, c, d) ==
  IF Truthy(a) THEN a ELSE IF Truthy(b) THEN b ELSE IF Truthy(c) THEN c ELSE d

\* bound on the interpreter's call stack
RecursionLimit == 4

\* _first_gradient_color that looks at the stops of the referenced gradient
\* and does not follow its href in turn
_first_gradient_color_one_hop(t, gradient, gradient_by_id, depth) ==
  LET own == FirstStopColor(t, Children(t, gradient))
      href == Or4(Get(t[gradient], XLINK_href), Get(t[gradient], "href"),
                  Get(t[gradient], XLINK_HREF), Get(t[gradient], "HREF"))
      j == IF Truthy(href) /\ Head(href) = "#"
           THEN DictIndex(gradient_by_id, Tail(href), 1) ELSE 0
  IN IF Truthy(own) THEN own
     ELSE IF j # 0 /\ gradient_by_id[j][2] # gradient
          THEN FirstStopColor(t, Children(t, gradient_by_id[j][2]))
          ELSE None

\* gradient is the index of the element; depth counts the nested calls
RECURSIVE _first_gradient_color(_, _, _, _)
_first_gradient_color(t, gradient, gradient_by_id, depth) ==
  IF depth > RecursionLimit THEN RecursionError
  ELSE
    LET own == FirstStopColor(t, Children(t, gradient)) IN
    IF Truthy(own) THEN own
    ELSE
      LET href == Or4(Get(t[gradient], XLINK_href), Get(t[gradient], "href"),
                      Get(t[gradient], XLINK_HREF), Get(t[gradient], "HREF"))
      IN
      IF Truthy(href) /\ Head(href) = "#"
      THEN \* ref is None when the id is not a key of gradient_by_id
           LET j == DictIndex(gradient_by_id, Tail(href), 1)
               ref == IF j = 0 THEN 0 ELSE gradient_by_id[j][2]
           IN
           IF j # 0 /\ ref # gradient
           THEN _first_gradient_color(t, ref, gradient_by_id, depth + 1)
           ELSE None
      ELSE None

\* ReplaceInElem with the style handled only when the fill attribute was not
\* replaced (elif for the second if)
ReplaceInElem_elif(elem, gradient_id, solid_color) ==
  LET fill == Get(elem, "fill")
      style == Get(elem, "style")
      style_map == IF Truthy(style) THEN _parse_style(style) ELSE <<>>
      style_fill == DictGet(style_map, <<"fill">>)
  IN
  IF Truthy(fill) /\ _is_fill_url_ref(fill, gradient_id)
  THEN <<Set(elem, "fill", solid_color), 1>>
  ELSE IF Truthy(style) /\ Truthy(style_fill)
          /\ _is_fill_url_ref(style_fill, gradient_id)
       THEN <<Set(elem, "style",
                  _format_style(DictSet(style_map, <<"fill">>, solid_color))), 1>>
       ELSE <<elem, 0>>

\* the body of the loop of _replace_fill_attributes for one element:
\* <<element, replacements>>
ReplaceInElem(elem, gradient_id, solid_color) ==
  LET fill == Get(elem, "fill")
      hit1 == Truthy(fill) /\ _is_fill_url_ref(fill, gradient_id)
      e1 == IF hit1 THEN Set(elem, "fill", solid_color) ELSE elem
      style == Get(e1, "style")
      style_map == IF Truthy(style) THEN _parse_style(style) ELSE <<>>
      style_fill == DictGet(style_map, <<"fill">>)
      hit2 == Truthy(style) /\ Truthy(style_fill)
              /\ _is_fill_url_ref(style_fill, gradient_id)
      e2 == IF hit2
            THEN Set(e1, "style",
                     _format_style(DictSet(style_map, <<"fill">>, solid_color)))
            ELSE e1
  IN <<e2, (IF hit1 THEN 1 ELSE 0) + (IF hit2 THEN 1 ELSE 0)>>

RECURSIVE SumSeq(_)
SumSeq(s) == IF s = <<>> THEN 0 ELSE Head(s) + SumSeq(Tail(s))

\* <<tree, replacements>>
_replace_fill_attributes(t, gradient_id, solid_color) ==
  LET r == [k \in 1..Len(t) |-> ReplaceInElem(t[k], gradient_id, solid_color)]
  IN <<[k \in 1..Len(t) |-> r[k][1]], SumSeq([k \in 1..Len(t) |-> r[k][2]])>>

\* root.findall(".//{*}defs/{*}linearGradient"): the defs is a descendant
\* of the root, the gradient its direct child
_find_linear_gradients(t) ==
  SelectSeq([k \in 1..Len(t) |-> k],
            LAMBDA k : /\ t[k].tag = "linearGradient"
                       /\ t[k].parent > 1
                       /\ t[t[k].parent].tag = "defs")

\* the dict id -> gradient built at the head of process_svg
RECURSIVE BuildById(_, _, _)
BuildById(t, gs, out) ==
  IF gs = <<>> THEN out
  ELSE LET gid == Get(t[Head(gs)], "id") IN
       BuildById(t, Tail(gs),
                 IF Truthy(gid) THEN DictSet(out, gid, Head(gs)) ELSE out)

----------------------------------------------------------------------------
(* The input documents *)

Str(c) == <<c>>
Red == Str("R")
Blue == Str("B")
\* url(#id)
Url(id) == <<"url(", "#">> \o id \o <<")">>
\* url( <open> #id <close> )
UrlQ(open, id, close) == <<"url(">> \o open \o <<"#">> \o id \o close \o <<")">>
Hash(id) == <<"#">> \o id
Decl(k, v) == <<k, ":">> \o v
Semi == <<";">>

Elem(tag, parent, attrib) == [tag |-> tag, parent |-> parent, attrib |-> attrib]
Stop(attrib) == [tag |-> "stop", attrib |-> attrib]
Grad(attrib, children) == [attrib |-> attrib, children |-> children]

\* the gradients, each followed by its children, as elements under parent p;
\* n is the index of the element before the first one
RECURSIVE GradElems(_, _, _)
GradElems(grads, p, n) ==
  IF grads = <<>> THEN <<>>
  ELSE
    LET g == Head(grads)
        kids == [k \in 1..Len(g.children) |->
                   Elem(g.children[k].tag, n + 1, g.children[k].attrib)]
    IN <<Elem("linearGradient", p, g.attrib)>> \o kids
       \o GradElems(Tail(grads), p, n + 1 + Len(kids))

\* <svg> <ctag> gradients </ctag> <rect/> <g> <path/>
\*   <linearGradient id="z"><stop stop-color="B"/></linearGradient> </g> </svg>
Doc(ctag, grads, rectAttrib, pathAttrib) ==
  LET gs == GradElems(grads, 2, 2)
      n == 2 + Len(gs)
  IN <<Elem("svg", 0, <<<<"width", Str("9")>>>>), Elem(ctag, 1, <<>>)>> \o gs
     \o <<Elem("rect", 1, rectAttrib),
          Elem("g", 1, <<>>),
          Elem("path", n + 2, pathAttrib),
          Elem("linearGradient", n + 2, <<<<"id", Str("z")>>>>),
          Elem("stop", n + 4, <<<<"stop-color", Blue>>>>)>>

A == Str("a")
B == Str("b")
C == Str("c")
Z == Str("z")

Id(x) == <<<<"id", x>>>>
Href(x) == <<<<"href", x>>>>
Color(c) == <<Stop(<<<<"stop-color", c>>>>)>>

\* href attributes of a gradient
HrefAttribs ==
  { <<>>, Href(Hash(A)), Href(Hash(B)), Href(Hash(C)), Href(Hash(Z)),
    Href(B), Href(<<>>),
    <<<<XLINK_href, Hash(C)>>>>,
    <<<<"HREF", Hash(C)>>>>,
    <<<<XLINK_HREF, Hash(C)>>>>,
    <<<<"href", Hash(B)>>, <<XLINK_href, Hash(C)>>>>,
    <<<<"href", <<>>>>, <<"HREF", Hash(C)>>>> }

\* children of a gradient
StopLists ==
  { <<>>,
    <<Stop(<<>>)>>,
    Color(Red),
    Color(<<WS, "R", WS>>),
    Color(<<WS>>),
    <<Stop(<<>>), Stop(<<<<"stop-color", Red>>>>)>>,
    <<Stop(<<<<"style", Decl("stop-color", Red)>>>>)>>,
    <<Stop(<<<<"style", Decl("opacity", Str("1")) \o Semi
                        \o <<WS>> \o Decl("stop-color", <<WS, "R">>)>>>>)>>,
    <<Stop(<<<<"stop-color", <<>>>>, <<"style", Decl("stop-color", Red)>>>>)>>,
    <<Stop(<<<<"stop-color", <<WS>>>>, <<"style", Decl("stop-color", Red)>>>>)>>,
    <<Stop(<<<<"stop-color", <<WS>>>>, <<"style", Decl("stop-color", Red)>>>>),
      Stop(<<<<"stop-color", Blue>>>>)>>,
    <<Stop(<<<<"stop-color", <<WS>>>>>>), Stop(<<<<"stop-color", Blue>>>>)>>,
    <<Stop(<<<<"stop-color", Red>>, <<"style", Decl("stop-color", Blue)>>>>)>>,
    <<[tag |-> "title", attrib |-> <<<<"stop-color", Blue>>>>],
      Stop(<<<<"stop-color", Red>>>>)>>,
    <<[tag |-> "backstop", attrib |-> <<<<"stop-color", Red>>>>]>> }

\* a gradient of the href graph: a colour of its own, or a reference, or nothing
GraphGrads(id, c) ==
  { Grad(Id(id), Color(c)), Grad(Id(id), <<>>) }
  \cup { Grad(Id(id) \o Href(Hash(x)), <<>>) : x \in {A, B, C} }

\* fill values
FillValues ==
  { Url(A), Url(B), Url(C), Url(Z),
    UrlQ(<<SQ>>, A, <<SQ>>), UrlQ(<<DQ>>, A, <<DQ>>),
    UrlQ(<<SQ>>, A, <<DQ>>), UrlQ(<<>>, A, <<SQ>>), UrlQ(<<DQ>>, A, <<>>),
    UrlQ(<<WS>>, A, <<WS>>), <<WS>> \o Url(A) \o <<WS>>,
    Url(A) \o <<"x">>, <<"url(", "#", "a">>, <<"url(", "a", ")">>,
    <<"url(", "#", ")">>, <<"url(", "#", "a", "b", ")">>,
    Red, <<>> }

\* style values
StyleValues ==
  { Decl("fill", Url(A)),
    Decl("fill", Url(B)) \o Semi,
    Decl("fill", Url(C)),
    Decl("stroke", Blue) \o Semi \o Decl("fill", Url(A)) \o Semi
      \o Decl("opacity", Str("1")),
    <<WS>> \o Decl("fill", <<WS>> \o UrlQ(<<SQ>>, A, <<SQ>>)) \o <<WS>> \o Semi
      \o Decl("stroke", Blue),
    Decl("stroke", Blue) \o Semi \o Decl("fill", Url(A)) \o Semi
      \o Decl("stroke", Red),
    Decl("fill", Red) \o Semi \o Decl("fill", Url(A)),
    Decl("fill", Url(A)) \o Semi \o Decl("fill", Red),
    Decl("stroke", <<>>) \o Semi \o Decl("fill", Url(A)),
    <<":">> \o Blue \o Semi \o Decl("fill", Url(A)),
    Decl("fill", Url(A)) \o Semi \o <<"x">>,
    Decl("fill", UrlQ(<<>>, A, <<DQ>>)),
    Decl("stroke", Url(A)),
    Decl("stroke", Blue),
    <<>> }

GradA == Grad(Id(A), Color(Red))
GradB == Grad(Id(B) \o Href(Hash(A)), <<>>)
GradC == Grad(Id(C), <<>>)
RectA == <<<<"x", Str("1")>>, <<"fill", Url(A)>>, <<"stroke", Url(A)>>>>
PathB == <<<<"fill", UrlQ(<<SQ>>, B, <<SQ>>)>>,
           <<"style", Decl("stroke", Blue) \o Semi \o Decl("fill", Url(C))>>>>

\* the three gradients refer to each other in every way
GraphDocs ==
  { Doc("defs", <<ga, gb, gc>>, RectA, PathB) :
      ga \in GraphGrads(A, Red), gb \in GraphGrads(B, Blue),
      gc \in GraphGrads(C, Red) }

\* every spelling of the href, every list of stops
SyntaxDocs ==
  { Doc("defs", <<Grad(Id(A) \o h, <<>>), Grad(Id(B), Color(Blue)),
                  Grad(Id(C), Color(Red))>>, RectA, PathB) : h \in HrefAttribs }
  \cup
  { Doc("defs", <<Grad(Id(A) \o h, s), Grad(Id(B), Color(Blue))>>,
        RectA, PathB) : h \in {<<>>, Href(Hash(B))}, s \in StopLists }

\* gradients without id, with an empty id, not under a defs, none at all
IdDocs ==
  { Doc(ctag, <<Grad(ia, Color(Red)), Grad(Id(B) \o Href(Hash(A)), <<>>)>>,
        RectA, PathB) :
      ctag \in {"defs", "g"}, ia \in {Id(A), <<>>, Id(<<>>)} }
  \cup { Doc(ctag, <<>>, RectA, PathB) : ctag \in {"defs", "g"} }

\* every fill and style value on the referencing elements
FillDocs ==
  { Doc("defs", <<GradA, GradB, GradC>>,
        <<<<"x", Str("1")>>, <<"fill", f>>, <<"stroke", Url(A)>>>>,
        <<<<"style", st>>, <<"y", Str("2")>>>>) :
      f \in FillValues, st \in StyleValues }
  \cup
  { Doc("defs", <<GradA, GradB, GradC>>,
        <<<<"style", st>>, <<"fill", f>>>>, <<>>) :
      f \in {Url(A), Url(B), Red}, st \in StyleValues }

\* a stop-color that has itself the form of a reference
RefColorDocs ==
  { Doc("defs", <<Grad(Id(A), Color(ca)), Grad(Id(B), Color(cb)),
                  Grad(Id(C), cc)>>, RectA, PathB) :
      ca \in {Red, Url(A), Url(B), Url(C)}, cb \in {Blue, Url(A), Url(C)},
      cc \in {<<>>, Color(Red)} }

\* two gradients with the same id: the id map keeps the second
DupDocs ==
  { Doc("defs", <<g1, g2>>, RectA, PathB) :
      g1 \in {Grad(Id(A) \o Href(Hash(A)), <<>>), Grad(Id(A), Color(Red))},
      g2 \in {Grad(Id(A) \o Href(Hash(A)), <<>>), Grad(Id(A), Color(Blue))} }

\* the root itself is the defs; the defs lies two levels below the root
NestingDocs ==
  { <<Elem("defs", 0, <<>>),
      Elem("linearGradient", 1, Id(A)),
      Elem("stop", 2, <<<<"stop-color", Red>>>>),
      Elem("rect", 1, RectA)>>,
    <<Elem("svg", 0, <<>>),
      Elem("g", 1, <<<<"fill", Url(A)>>>>),
      Elem("defs", 2, <<>>),
      Elem("linearGradient", 3, Id(A) \o <<<<"fill", Url(A)>>>>),
      Elem("stop", 4, <<<<"stop-color", Red>>>>),
      Elem("rect", 3, RectA),
      Elem("g", 4, <<>>),
      Elem("linearGradient", 7, Id(B)),
      Elem("stop", 8, <<<<"stop-color", Blue>>>>),
      Elem("path", 1, PathB)>> }

Docs ==
  GraphDocs \cup SyntaxDocs \cup IdDocs \cup FillDocs \cup RefColorDocs
  \cup DupDocs \cup NestingDocs

----------------------------------------------------------------------------
(* main *)

\* number of times the program is run, each run on the SVG the run before wrote
MaxRuns == 2

VARIABLES
  input,          \* the file at paths.input_svg: [kind, doc]
  pc,             \* position of main: "main", "loop", "render", "exit"
  tree,           \* the parsed tree, mutated in place
  gradients,      \* list of the gradients found (indices into tree)
  gradient_by_id, \* id -> gradient
  i,              \* position of the for loop over gradients
  log,            \* the records handed to _LOG
  svg_written,    \* the file at paths.output_svg has been written
  output_svg,     \* its content
  pdf_written,    \* the file at paths.output_pdf has been written
  exc,            \* the exception caught by main, "" when none
  exit_code,      \* return value of main, -1 until it returns
  run             \* number of the run

vars == <<input, pc, tree, gradients, gradient_by_id, i, log, svg_written,
          output_svg, pdf_written, exc, exit_code, run>>

Inputs ==
  {[kind |-> "missing", doc |-> <<>>], [kind |-> "malformed", doc |-> <<>>]}
  \cup {[kind |-> "svg", doc |-> d] : d \in Docs}

Start(in, r) ==
  /\ input = in
  /\ pc = "main"
  /\ tree = <<>>
  /\ gradients = <<>>
  /\ gradient_by_id = <<>>
  /\ i = 1
  /\ log = <<>>
  /\ svg_written = FALSE
  /\ output_svg = <<>>
  /\ pdf_written = FALSE
  /\ exc = ""
  /\ exit_code = -1
  /\ run = r

Init == \E in \in Inputs : Start(in, 1)

Entry(level, msg, gid, color, n) ==
  [level |-> level, msg |-> msg, gid |-> gid, color |-> color, n |-> n]

Return(code, e) ==
  /\ pc' = "exit"
  /\ exit_code' = code
  /\ exc' = e

\* main: paths.input_svg.exists() is false
InputMissing ==
  /\ pc = "main"
  /\ input.kind = "missing"
  /\ Return(2, "")
  /\ log' = Append(log, Entry("error", "Input SVG not found", <<>>, <<>>, 0))
  /\ UNCHANGED <<input, tree, gradients, gradient_by_id, i, svg_written,
                 output_svg, pdf_written, run>>

\* ParseFails with the ParseError caught by the handler of Exception
ParseFails_generic ==
  /\ pc = "main"
  /\ input.kind = "malformed"
  /\ Return(1, "ParseError")
  /\ log' = Append(log, Entry("error", "Failed", <<>>, <<>>, 0))
  /\ UNCHANGED <<input, tree, gradients, gradient_by_id, i, svg_written,
                 output_svg, pdf_written, run>>

\* process_svg: ET.parse raises ParseError
ParseFails ==
  /\ pc = "main"
  /\ input.kind = "malformed"
  /\ Return(3, "ParseError")
  /\ log' = Append(log, Entry("error", "Failed to parse SVG/XML", <<>>, <<>>, 0))
  /\ UNCHANGED <<input, tree, gradients, gradient_by_id, i, svg_written,
                 output_svg, pdf_written, run>>

\* process_svg up to the for loop over the gradients
Parse ==
  /\ pc = "main"
  /\ input.kind = "svg"
  /\ tree' = input.doc
  /\ gradients' = _find_linear_gradients(input.doc)
  /\ gradient_by_id' = BuildById(input.doc, gradients', <<>>)
  /\ i' = 1
  /\ log' = IF gradients' = <<>>
            THEN Append(log, Entry("info", "No <linearGradient> found",
                                   <<>>, <<>>, 0))
            ELSE log
  /\ pc' = "loop"
  /\ UNCHANGED <<input, svg_written, output_svg, pdf_written, exc, exit_code,
                 run>>

InLoop == pc = "loop" /\ i <= Len(gradients)

\* gradient.get("id") of the gradient of this iteration
Gid == Get(tree[gradients[i]], "id")

\* _first_gradient_color of the gradient of this iteration
CurColor == _first_gradient_color(tree, gradients[i], gradient_by_id, 1)

\* if not gid: continue
SkipNoId ==
  /\ InLoop
  /\ ~Truthy(Gid)
  /\ log' = Append(log, Entry("warning", "Skipping <linearGradient> without id",
                              <<>>, <<>>, 0))
  /\ i' = i + 1
  /\ UNCHANGED <<input, pc, tree, gradients, gradient_by_id, svg_written,
                 output_svg, pdf_written, exc, exit_code, run>>

\* if not color: continue
SkipNoColor ==
  /\ InLoop
  /\ Truthy(Gid)
  /\ CurColor # RecursionError
  /\ ~Truthy(CurColor)
  /\ log' = Append(log, Entry("warning", "has no stop-color; skipping",
                              Gid, <<>>, 0))
  /\ i' = i + 1
  /\ UNCHANGED <<input, pc, tree, gradients, gradient_by_id, svg_written,
                 output_svg, pdf_written, exc, exit_code, run>>

\* _first_gradient_color exhausts the call stack; main catches the exception
Overflow ==
  /\ InLoop
  /\ Truthy(Gid)
  /\ CurColor = RecursionError
  /\ Return(1, "RecursionError")
  /\ log' = Append(log, Entry("error", "Failed", Gid, <<>>, 0))
  /\ UNCHANGED <<input, tree, gradients, gradient_by_id, i, svg_written,
                 output_svg, pdf_written, run>>

\* n = _replace_fill_attributes(root, gid, color)
Replace ==
  /\ InLoop
  /\ Truthy(Gid)
  /\ CurColor # RecursionError
  /\ Truthy(CurColor)
  /\ LET r == _replace_fill_attributes(tree, Gid, CurColor) IN
       /\ tree' = r[1]
       /\ log' = Append(log, Entry("info", "Replaced", Gid, CurColor, r[2]))
  /\ i' = i + 1
  /\ UNCHANGED <<input, pc, gradients, gradient_by_id, svg_written,
                 output_svg, pdf_written, exc, exit_code, run>>

\* tree.write(output_svg)
Write ==
  /\ pc = "loop"
  /\ i > Len(gradients)
  /\ svg_written' = TRUE
  /\ output_svg' = tree
  /\ pc' = "render"
  /\ UNCHANGED <<input, tree, gradients, gradient_by_id, i, log, pdf_written,
                 exc, exit_code, run>>

\* tree.write raises (the file cannot be written)
WriteFails ==
  /\ pc = "loop"
  /\ i > Len(gradients)
  /\ Return(1, "OSError")
  /\ log' = Append(log, Entry("error", "Failed", <<>>, <<>>, 0))
  /\ UNCHANGED <<input, tree, gradients, gradient_by_id, i, svg_written,
                 output_svg, pdf_written, run>>

\* convert_svg_to_pdf succeeds; main returns 0
Render ==
  /\ pc = "render"
  /\ pdf_written' = TRUE
  /\ Return(0, "")
  /\ log' = log \o <<Entry("info", "Wrote svg", <<>>, <<>>, 0),
                     Entry("info", "Wrote pdf", <<>>, <<>>, 0)>>
  /\ UNCHANGED <<input, tree, gradients, gradient_by_id, i, svg_written,
                 output_svg, run>>

\* convert_svg_to_pdf raises
RenderFails ==
  /\ pc = "render"
  /\ Return(1, "RenderError")
  /\ log' = Append(log, Entry("error", "Failed", <<>>, <<>>, 0))
  /\ UNCHANGED <<input, tree, gradients, gradient_by_id, i, svg_written,
                 output_svg, pdf_written, run>>

\* the program is run again, on the SVG it wrote, with fresh output paths
Rerun ==
  /\ pc = "exit"
  /\ svg_written
  /\ run < MaxRuns
  /\ input' = [kind |-> "svg", doc |-> output_svg]
  /\ pc' = "main"
  /\ tree' = <<>>
  /\ gradients' = <<>>
  /\ gradient_by_id' = <<>>
  /\ i' = 1
  /\ log' = <<>>
  /\ svg_written' = FALSE
  /\ output_svg' = <<>>
  /\ pdf_written' = FALSE
  /\ exc' = ""
  /\ exit_code' = -1
  /\ run' = run + 1

Next ==
  \/ InputMissing
  \/ ParseFails
  \/ Parse
  \/ SkipNoId
  \/ SkipNoColor
  \/ Overflow
  \/ Replace
  \/ Write
  \/ WriteFails
  \/ Render
  \/ RenderFails
  \/ Rerun

Spec == Init /\ [][Next]_vars


----------------------------------------------------------------------------
(* Vocabulary of the properties *)

Elems(t) == 1..Len(t)
Fill(t, k) == Get(t[k], "fill")
Style(t, k) == Get(t[k], "style")

Spaces(n) == [j \in 1..n |-> WS]

\* value is a reference to id as the specification writes it: url(, optional
\* whitespace, an optional quote, #, the identifier, the same quote again,
\* optional whitespace, ); whitespace around the whole is ignored
SpecFillRef(value, id) ==
  /\ Truthy(value)
  /\ id # <<>>
  /\ \A j \in 1..Len(id) : IsIdChar(id[j])
  /\ LET v == Strip(value) IN
     \E q \in {<<>>, <<SQ>>, <<DQ>>} : \E m, n \in 0..Len(v) :
       v = <<"url(">> \o Spaces(m) \o q \o <<"#">> \o id \o q \o Spaces(n)
           \o <<")">>

\* the colour a stop yields: its stop-color attribute, trimmed, when that is
\* not empty, otherwise the stop-color of its style, trimmed, when not empty
SpecStopColor(stop) ==
  LET a == Get(stop, "stop-color")
      st == Get(stop, "style")
      c == IF st # None THEN DictGet(_parse_style(st), <<"stop-color">>)
           ELSE None
      fromAttr == IF a # None THEN Strip(a) ELSE <<>>
      fromStyle == IF c # None THEN Strip(c) ELSE <<>>
  IN IF fromAttr # <<>> THEN fromAttr
     ELSE IF fromStyle # <<>> THEN fromStyle ELSE None

\* the first colour a stop among kids yields
RECURSIVE SpecFirstColor(_, _)
SpecFirstColor(t, kids) ==
  IF kids = <<>> THEN None
  ELSE IF EndsWithStop(t[Head(kids)].tag)
          /\ SpecStopColor(t[Head(kids)]) # None
       THEN SpecStopColor(t[Head(kids)])
       ELSE SpecFirstColor(t, Tail(kids))

\* the colour the program finds on the stops of gradient g itself
OwnColor(t, g) == FirstStopColor(t, Children(t, g))

\* the gradient that g defers to: g has no colour of its own and its href
\* names a gradient of the id map; 0 when there is none
NextGrad(t, byId, g) ==
  LET href == Or4(Get(t[g], XLINK_href), Get(t[g], "href"),
                  Get(t[g], XLINK_HREF), Get(t[g], "HREF"))
  IN IF /\ ~Truthy(OwnColor(t, g))
        /\ Truthy(href)
        /\ Head(href) = "#"
        /\ DictIndex(byId, Tail(href), 1) # 0
     THEN byId[DictIndex(byId, Tail(href), 1)][2]
     ELSE 0

\* the gradient reached from g after n references, 0 when the chain is shorter
RECURSIVE Walk(_, _, _, _)
Walk(t, byId, g, n) ==
  IF n = 0 \/ g = 0 THEN g ELSE Walk(t, byId, NextGrad(t, byId, g), n - 1)

\* the chain of references from g never ends
LeadsIntoCycle(t, byId, g) == Walk(t, byId, g, Len(t)) # 0

\* number of references from g to the end of its chain (g not into a cycle)
RECURSIVE ChainLen(_, _, _)
ChainLen(t, byId, g) ==
  IF NextGrad(t, byId, g) = 0 THEN 0
  ELSE 1 + ChainLen(t, byId, NextGrad(t, byId, g))

\* the gradient at the end of the chain of g
ChainEnd(t, byId, g) == Walk(t, byId, g, ChainLen(t, byId, g))

\* the loop is about to handle, and then handles, a gradient that has an id
HandlesGradient == InLoop /\ Truthy(Gid) /\ i' = i + 1

LastLog == log[Len(log)]

----------------------------------------------------------------------------
(* C1: resolving a gradient whose href chain runs into a cycle ends, and   *)
(* the gradient is treated as unresolvable (no colour).                    *)
C1_CycleIsUnresolvable ==
  (InLoop /\ Truthy(Gid)
     /\ LeadsIntoCycle(tree, gradient_by_id, gradients[i]))
  => CurColor = None

(* C2: when the loop handles a gradient that has a colour on its own       *)
(* stops, every element whose fill is a reference to its id gets that      *)
(* colour as fill, and every other fill (another identifier, a malformed   *)
(* reference) stays as it is.                                              *)
C2_ExactRefsRewrittenOthersKept ==
  [][(HandlesGradient /\ Truthy(OwnColor(tree, gradients[i])))
     => \A k \in Elems(tree) :
          IF SpecFillRef(Fill(tree, k), Gid)
          THEN Fill(tree', k) = OwnColor(tree, gradients[i])
          ELSE Fill(tree', k) = Fill(tree, k)]_vars

(* C6: a gradient without colour never aborts the run: unless writing or   *)
(* rendering fails, the SVG is written, and a fill that refers to a        *)
(* gradient without colour is in it as it was in the input.                *)
C6_UnresolvableNeverAborts ==
  (pc = "exit" /\ input.kind = "svg" /\ exc \notin {"OSError", "RenderError"})
  => /\ svg_written
     /\ \A k \in Elems(output_svg) : \A j \in 1..Len(gradients) :
          LET gid == Get(tree[gradients[j]], "id") IN
          (/\ Truthy(gid)
           /\ SpecFillRef(Fill(input.doc, k), gid)
           /\ ~Truthy(_first_gradient_color(tree, gradients[j],
                                            gradient_by_id, 1)))
          => Fill(output_svg, k) = Fill(input.doc, k)

(* C9: a fill is rewritten only when it is a reference in the form of the  *)
(* specification (the closing quote, if any, is the opening one) to the id *)
(* of the gradient handled.                                                *)
C9_OnlyWellFormedRefsMatch ==
  [][HandlesGradient
     => \A k \in Elems(tree) :
          Fill(tree', k) # Fill(tree, k) => SpecFillRef(Fill(tree, k), Gid)]_vars

(* C10: the colour found on the stops of a gradient is the first colour    *)
(* that a direct stop child yields, where a stop yields its trimmed        *)
(* stop-color attribute if not empty, otherwise that of its style.         *)
C10_FirstColorBearingStop ==
  pc = "loop"
  => \A j \in 1..Len(gradients) :
       OwnColor(tree, gradients[j])
         = SpecFirstColor(tree, Children(tree, gradients[j]))

----------------------------------------------------------------------------
\* the loop handles a gradient that has an id and a colour
ReplaceStep ==
  HandlesGradient /\ CurColor # RecursionError /\ Truthy(CurColor)

(* C3: a gradient without a colour on its own stops, whose href leads over *)
(* one or more references (no cycle) to a gradient with a colour, gets     *)
(* that colour, and the fills that refer to it are rewritten to it; when   *)
(* the chain ends at a gradient without colour nothing is rewritten.       *)
C3_HrefChainColor ==
  [][(/\ HandlesGradient
      /\ NextGrad(tree, gradient_by_id, gradients[i]) # 0
      /\ ~LeadsIntoCycle(tree, gradient_by_id, gradients[i]))
     => LET c == OwnColor(tree, ChainEnd(tree, gradient_by_id, gradients[i]))
        IN IF Truthy(c)
           THEN /\ LastLog' = Entry("info", "Replaced", Gid, c, LastLog'.n)
                /\ \A k \in Elems(tree) :
                     SpecFillRef(Fill(tree, k), Gid) => Fill(tree', k) = c
           ELSE tree' = tree]_vars

\* a gradient at the head of a chain of two references or more has been
\* resolved and a fill rewritten to the colour at the end of the chain
C3_Witness ==
  /\ pc = "loop"
  /\ \E e \in {log[j] : j \in 1..Len(log)} :
     \E g \in {gradients[j] : j \in 1..Len(gradients)} :
       /\ e.msg = "Replaced"
       /\ e.n >= 1
       /\ Get(tree[g], "id") = e.gid
       /\ ~LeadsIntoCycle(tree, gradient_by_id, g)
       /\ ChainLen(tree, gradient_by_id, g) >= 2
       /\ \E k \in Elems(tree) :
            SpecFillRef(Fill(input.doc, k), e.gid) /\ Fill(tree, k) = e.color

----------------------------------------------------------------------------
\* the declarations of a style string, one <<name, value>> per chunk with a
\* colon, in the order of the string
RECURSIVE DeclsOf(_)
DeclsOf(chunks) ==
  IF chunks = <<>> THEN <<>>
  ELSE LET chunk == Strip(Head(chunks)) IN
       IF IndexOf(chunk, ":", 1) = 0 THEN DeclsOf(Tail(chunks))
       ELSE <<<<Strip(Split1(chunk, ":")[1]), Strip(Split1(chunk, ":")[2])>>>>
            \o DeclsOf(Tail(chunks))

RawDecls(style) == IF Truthy(style) THEN DeclsOf(Split(style, ";")) ELSE <<>>

Others(decls) == SelectSeq(decls, LAMBDA kv : kv[1] # <<"fill">>)

\* value of the last declaration of name k
LastVal(decls, k) ==
  LET j == CHOOSE j \in 1..Len(decls) :
             /\ decls[j][1] = k
             /\ \A m \in (j + 1)..Len(decls) : decls[m][1] # k
  IN decls[j][2]

\* the effective fill of a style string, None when it declares none
EffectiveFill(style) ==
  IF \E j \in 1..Len(RawDecls(style)) : RawDecls(style)[j][1] = <<"fill">>
  THEN LastVal(RawDecls(style), <<"fill">>) ELSE None

\* one declaration per name, at the place of the first, with the value of the
\* last; fill with the value color
RECURSIVE Effective(_, _, _, _)
Effective(decls, j, seen, color) ==
  IF j > Len(decls) THEN <<>>
  ELSE LET k == decls[j][1] IN
       IF k \in seen THEN Effective(decls, j + 1, seen, color)
       ELSE <<<<k, IF k = <<"fill">> THEN color ELSE LastVal(decls, k)>>>>
            \o Effective(decls, j + 1, seen \cup {k}, color)

Proper(decls) == SelectSeq(decls, LAMBDA kv : kv[1] # <<>> /\ kv[2] # <<>>)

(* C4 as stated: when a style's fill is a reference to the gradient that   *)
(* is replaced, the new style string has every other declaration of the    *)
(* old one (those with a name and a value), with its value, in the same    *)
(* order.                                                                  *)
C4_AllOtherDeclarationsKept ==
  [][ReplaceStep
     => \A k \in Elems(tree) :
          SpecFillRef(EffectiveFill(Style(tree, k)), Gid)
          => Others(Proper(RawDecls(Style(tree', k))))
               = Others(Proper(RawDecls(Style(tree, k))))]_vars

(* C4 amended: the new style string declares each property name of the old *)
(* one once, at the place of its first declaration and with the value of   *)
(* its last, fill with the colour; a declaration with an empty name or an  *)
(* empty value is left out.                                                *)
C4_EffectiveDeclarationsKept ==
  [][ReplaceStep
     => \A k \in Elems(tree) :
          SpecFillRef(EffectiveFill(Style(tree, k)), Gid)
          => RawDecls(Style(tree', k))
               = Proper(Effective(RawDecls(Style(tree, k)), 1, {}, CurColor))]_vars

\* a style with a declaration before and one after its fill has been rewritten
C4_Witness ==
  /\ run = 1
  /\ pc = "loop"
  /\ \E k \in Elems(tree) :
       LET old == RawDecls(Style(input.doc, k))
           new == RawDecls(Style(tree, k))
       IN /\ Style(tree, k) # Style(input.doc, k)
          /\ Len(old) = 3
          /\ Len(new) = 3
          /\ SpecFillRef(old[2][2], A)
          /\ new = <<old[1], <<<<"fill">>, Red>>, old[3]>>

----------------------------------------------------------------------------
\* some gradient resolves to a colour that has itself the form of a reference
\* to a gradient that resolves to a colour
Resolved(t, g) ==
  LET byId == BuildById(t, _find_linear_gradients(t), <<>>) IN
  IF Truthy(Get(t[g], "id")) THEN _first_gradient_color(t, g, byId, 1)
  ELSE None

Resolves(t, g) == Resolved(t, g) # RecursionError /\ Truthy(Resolved(t, g))

RefColor(t) ==
  LET gs == _find_linear_gradients(t) IN
  \E g, h \in {gs[j] : j \in 1..Len(gs)} :
    /\ Resolves(t, g)
    /\ Resolves(t, h)
    /\ _is_fill_url_ref(Resolved(t, g), Get(t[h], "id"))

----------------------------------------------------------------------------
(* C7: main returns 2 for a missing input, 3 for an input that is not      *)
(* well-formed, 1 for every other failure, 0 only with the SVG and the PDF *)
(* written; with 2 or 3 nothing is written; the PDF is never rendered      *)
(* before the SVG is written.                                              *)
C7_ExitCodes ==
  /\ pc = "render" => svg_written
  /\ pdf_written => svg_written
  /\ pc = "exit"
     => /\ exit_code = 2 <=> input.kind = "missing"
        /\ exit_code = 3 <=> input.kind = "malformed"
        /\ exit_code = 1
             <=> exc \in {"RecursionError", "OSError", "RenderError"}
        /\ exit_code = 0 <=> (svg_written /\ pdf_written)
        /\ exit_code \in {2, 3} => (~svg_written /\ ~pdf_written)
        /\ exit_code \in {0, 1, 2, 3}

\* the input was not well-formed: main returned 3 and wrote nothing
C7_Witness ==
  pc = "exit" /\ input.kind = "malformed" /\ exit_code = 3 /\ ~svg_written

----------------------------------------------------------------------------
\* the names of the attributes of an element, in order
Names(elem) == [j \in 1..Len(elem.attrib) |-> elem.attrib[j][1]]

\* t and u have the same elements, in the same order and nesting, with the
\* same tags and attributes; only values of fill and style may differ
SameButFillStyle(t, u) ==
  /\ Len(t) = Len(u)
  /\ \A k \in Elems(t) :
       /\ t[k].tag = u[k].tag
       /\ t[k].parent = u[k].parent
       /\ Names(t[k]) = Names(u[k])
       /\ \A j \in 1..Len(t[k].attrib) :
            t[k].attrib[j][1] \notin {"fill", "style"}
            => t[k].attrib[j] = u[k].attrib[j]

====
